---- MODULE Spec2Model ----
(***************************************************************************)
(* PeopleCounter of src/hello_world.py: the MQTT delivery thread running   *)
(* _on_mqtt_message / handle_mqtt_message, and the main thread running     *)
(* run() (start-up, the polling loop, print_status, shutdown).  The two    *)
(* threads share the PeopleCounter fields without any lock, so every      *)
(* access to a shared field is a step of its own.                          *)
(***************************************************************************)
EXTENDS Integers, Sequences, FiniteSets, TLC

(* ------------------------------ bounds -------------------------------- *)
\* messages the broker delivers in a run of the mixed workload
MaxMsgs == 3
\* entries in one event's objects list, in the workload of object lists
MaxObjs == 2
\* people in one event of the mixed workload
MaxPeople == 1
\* clock ticks (seconds) that pass during a run
MaxTicks == 3
\* messages the broker delivers in a run of the steady workload
LongRun == 151

(* ------------------------- program constants -------------------------- *)
\* line 424: message_count % 150
StatusEvery == 150
\* line 331: summary interval, non-interactive / interactive
DockerInterval == 3
TtyInterval == 1
\* lines 303, 349, 384: scene_id[:8]
NameChars == 8
\* the value of time.time() when the process starts (any value that is at
\* least the summary interval; the real one is seconds since 1970)
StartTime == 3

(* ----------------------------- JSON data ------------------------------ *)
\* dict.get(key) of an absent key
None == "<None>"

DictGet(d, k, default) == IF k \in DOMAIN d THEN d[k] ELSE default

\* an entry of an objects list: a JSON object, or a JSON string
JObj(fields) == [json |-> "object", val |-> fields]
JStr == [json |-> "string", val |-> "person"]

ObjectEntries ==
  { JObj([type |-> "person"]),
    JObj([category |-> "person"]),
    JObj([type |-> "person", category |-> "other"]),
    JObj([type |-> "person", category |-> "person"]),
    JObj([type |-> "car"]),
    JStr }

RECURSIVE SeqsUpTo(_, _)
SeqsUpTo(S, n) ==
  IF n = 0 THEN { <<>> }
  ELSE LET shorter == SeqsUpTo(S, n - 1)
       IN  shorter \cup { Append(s, e) : s \in { t \in shorter : Len(t) = n - 1 }, e \in S }

ObjectLists == SeqsUpTo(ObjectEntries, MaxObjs)

\* the scene ids events carry
SceneIds == { "A", "B" }
\* what GET /scenes returns (lines 130-141): "B" is not listed
Catalogue == [A |-> [name |-> "Lobby", uid |-> "A", status |-> "running"]]

\* objects lists of 0..n people, and one with an entry that is no object
PersonLists(n) ==
  { [i \in 1..k |-> JObj([type |-> "person"])] : k \in 0..n } \cup { << JStr >> }

\* decoded payloads of the mixed workload: with and without 'id' (also the
\* empty id), with and without 'name', with and without 'objects'
Events ==
  { [id |-> i, objects |-> o] : i \in SceneIds \cup { "" }, o \in PersonLists(MaxPeople) }
  \cup { [objects |-> o] : o \in PersonLists(MaxPeople) }
  \cup { [id |-> "A", name |-> "Hall", objects |-> o] : o \in PersonLists(MaxPeople) }
  \cup { [id |-> "B"] }

\* decoded payloads of the workload of object lists: one scene, every list
ObjectEvents == { [id |-> "A", objects |-> o] : o \in ObjectLists }

\* decoded payloads of the steady workload: one scene, one person
SteadyEvents == { [id |-> "A", objects |-> << JObj([type |-> "person"]) >>] }

\* the scene ids of the workload of names: known to the registry, the same
\* letter in the other case, shorter and longer than the placeholder's prefix
NameIds == { "A", "a", "B", "west-wing-12" }

\* decoded payloads of the workload of names: events without 'name' for
\* every id, and one event that carries a name
NamedEvents ==
  { [id |-> i, objects |-> o] :
      i \in NameIds, o \in { << >>, << JObj([type |-> "person"]) >> } }
  \cup { [id |-> "a", name |-> "Annex", objects |-> << >>] }

\* objects lists of no, one and two people (and a car), as in the example
\* of two scenes
ExampleLists ==
  { << >>,
    << JObj([category |-> "person"]) >>,
    << JObj([type |-> "person"]), JObj([type |-> "car"]), JObj([type |-> "person"]) >> }

\* decoded payloads of the workload of the example: two scenes
ExampleEvents == { [id |-> i, objects |-> o] : i \in SceneIds, o \in ExampleLists }

(* --------------------------- pure functions --------------------------- *)
\* a variant of IsPerson that looks at 'type' only
TypeIsPerson(obj) == DictGet(obj.val, "type", None) = "person"

\* line 312: obj.get('type') == 'person' or obj.get('category') == 'person'
\* (obj.get raises AttributeError when obj is not a dict)
IsPerson(obj) ==
  \/ DictGet(obj.val, "type", None) = "person"
  \/ DictGet(obj.val, "category", None) = "person"

\* lines 308-313: the counting loop; raised when an entry has no .get
RECURSIVE CountFrom(_, _, _)
CountFrom(objects, i, n) ==
  IF i > Len(objects) THEN [raised |-> FALSE, n |-> n]
  ELSE IF objects[i].json # "object" THEN [raised |-> TRUE, n |-> n]
  ELSE CountFrom(objects, i + 1, IF IsPerson(objects[i]) THEN n + 1 ELSE n)

CountPeople(objects) == CountFrom(objects, 1, 0)

\* line 317: sum(self.people_counts.values())
RECURSIVE SumValues(_)
SumValues(d) ==
  IF DOMAIN d = {} THEN 0
  ELSE LET k == CHOOSE x \in DOMAIN d : TRUE
       IN  d[k] + SumValues([x \in DOMAIN d \ {k} |-> d[x]])

\* a variant of Prefix that keeps the whole id
WholeId(s) == s

\* scene_id[:8]
Prefix(s) == IF Len(s) <= NameChars THEN s ELSE SubSeq(s, 1, NameChars)

\* line 303: f'Scene-{scene_id[:8]}'
Placeholder(sid) == "Scene-" \o Prefix(sid)

\* line 303: data.get('name', self.scenes.get(scene_id, {}).get('name', placeholder))
ResolveName(data, registry, sid) ==
  DictGet(data, "name",
          DictGet(DictGet(registry, sid, <<>>), "name", Placeholder(sid)))

\* a variant of DictSet that starts a new dict with the one key
DictOnly(d, k, v) == [x \in {k} |-> v]

\* a dict with key k set to v (a new key is added)
DictSet(d, k, v) == [x \in DOMAIN d \cup {k} |-> IF x = k THEN v ELSE d[x]]

\* line 331
SummaryInterval(docker) == IF docker THEN DockerInterval ELSE TtyInterval

(* ------------------------------- state -------------------------------- *)
VARIABLES
  \* PeopleCounter fields (lines 65-73)
  scenes, people_counts, max_people_counts, max_total_people, scene_names,
  total_people, last_update, last_summary_time, message_count,
  \* insertion order of the keys of max_people_counts (a dict iterates in it)
  max_keys,
  \* the transport: connect (222), loop_start (226), subscribe (236)
  connected, loop_running, subscribed,
  \* the delivery thread: its position in the callback and its locals
  dpc, data, scene_id, objects, people_in_scene, current_time,
  \* the main thread: its position in run() and print_status's locals
  mpc, ps_ret, it_pos, it_used, row, pending,
  \* the environment: time.time(), DOCKER_CONTAINER / isatty, Ctrl+C
  clock, is_docker, interrupted,
  \* what an observer of the process has seen so far
  delivered, outcome, summaries, report, final_reports, periodic_reports,
  render_failed,
  \* history of the updates: the counts when the update in progress began, the
  \* scene of the call before it when that one completed its update, the
  \* largest count ever assigned to each scene, and the largest total an
  \* update has completed with
  before, prev_scene, assigned, completed_total

fields == << scenes, people_counts, max_people_counts, max_total_people,
             scene_names, total_people, last_update, last_summary_time,
             message_count, max_keys >>
transport == << connected, loop_running, subscribed >>
dlocals == << dpc, data, scene_id, objects, people_in_scene, current_time >>
mlocals == << mpc, ps_ret, it_pos, it_used, row, pending >>
env == << clock, is_docker, interrupted >>
seen == << delivered, outcome, summaries, report, final_reports,
           periodic_reports, render_failed >>
past == << before, prev_scene, assigned, completed_total >>
vars == << fields, transport, dlocals, mlocals, env, seen, past >>

\* a report that has read nothing yet
NoReport == [total_peak |-> << >>, rows |-> << >>]

\* lines 64-79, and the process about to call run()
Init ==
  /\ scenes = << >>
  /\ people_counts = << >>
  /\ max_people_counts = << >>
  /\ max_keys = << >>
  /\ max_total_people = 0
  /\ scene_names = << >>
  /\ total_people = 0
  /\ last_update = << >>
  /\ last_summary_time = 0
  /\ message_count = 0
  /\ connected = FALSE /\ loop_running = FALSE /\ subscribed = FALSE
  /\ dpc = "idle" /\ data = << >> /\ scene_id = None /\ objects = << >>
  /\ people_in_scene = 0 /\ current_time = 0
  /\ mpc = "load_configuration" /\ ps_ret = "" /\ it_pos = 0 /\ it_used = 0
  /\ row = << >> /\ pending = FALSE
  /\ clock = StartTime /\ is_docker \in BOOLEAN /\ interrupted = FALSE
  /\ delivered = 0 /\ outcome = "" /\ summaries = << >> /\ report = NoReport
  /\ final_reports = 0 /\ periodic_reports = {} /\ render_failed = FALSE
  /\ before = << >> /\ prev_scene = None /\ assigned = << >>
  /\ completed_total = 0

(* -------------------------- delivery thread --------------------------- *)
\* what the broker can send: undecodable bytes, text that is not JSON, a
\* JSON list, or a JSON object (an event)
Payloads(events) ==
  { [kind |-> "badutf8"], [kind |-> "notjson"], [kind |-> "jsonlist"] }
  \cup { [kind |-> "json", data |-> e] : e \in events }

\* a variant of Falsy that lets the empty id through ('scene_id is None')
IsNone(v) == v = None

\* 'not scene_id' (line 298)
Falsy(v) == v = None \/ v = ""

\* positions of the callback after line 326: the update is complete
Updated == { "summary_due", "show", "mark" }

\* the fields an update writes, as they are when a call begins
Counts ==
  [ people_counts |-> people_counts, max_people_counts |-> max_people_counts,
    total_people |-> total_people, max_total_people |-> max_total_people,
    message_count |-> message_count ]

\* the callback is over: back in the network loop, locals gone
CallbackReturns(how) ==
  /\ dpc' = "idle"
  /\ data' = << >> /\ scene_id' = None /\ objects' = << >>
  /\ people_in_scene' = 0 /\ current_time' = 0
  /\ outcome' = how
  /\ before' = << >>
  /\ prev_scene' = IF dpc \in Updated THEN scene_id ELSE None
  /\ UNCHANGED << assigned, completed_total >>

\* lines 337-339 (and 285-286): the exception is logged and the callback
\* returns normally
HandlerExcept == CallbackReturns("error")

\* lines 298-300: the warning and the return; nothing is stored
MissingId(event) ==
  /\ CallbackReturns("missing_id")
  /\ scene_names' = scene_names

\* a variant of CallbackFree: a message is handed to the callback while an
\* earlier call is still running
AnyTime(pos) == TRUE

\* line 226: loop_start() runs one network thread, and that thread calls
\* on_message for one message at a time, the next after the call returned
CallbackFree(pos) == pos = "idle"

\* lines 269-304: the network loop calls _on_mqtt_message with one message;
\* decode, parse, handle_mqtt_message up to caching the scene name
OnMessage(events, cap) ==
  /\ CallbackFree(dpc) /\ loop_running /\ subscribed
  /\ delivered < cap
  /\ delivered' = delivered + 1
  /\ \E msg \in Payloads(events) :
       CASE msg.kind = "badutf8" ->
              \* line 273 raises UnicodeDecodeError, caught at line 285
              /\ HandlerExcept
              /\ scene_names' = scene_names
         [] msg.kind = "notjson" ->
              \* lines 278-280
              /\ CallbackReturns("non_json")
              /\ scene_names' = scene_names
         [] msg.kind = "jsonlist" ->
              \* line 297: a list has no .get, caught at line 337
              /\ HandlerExcept
              /\ scene_names' = scene_names
         [] OTHER ->
              LET sid == DictGet(msg.data, "id", None)
              IN  IF Falsy(sid)
                  THEN MissingId(msg.data)
                  ELSE \* lines 303-307
                       /\ scene_names' = DictSet(scene_names, sid, ResolveName(msg.data, scenes, sid))
                       /\ data' = msg.data
                       /\ scene_id' = sid
                       /\ objects' = DictGet(msg.data, "objects", << >>)
                       /\ dpc' = "count"
                       /\ before' = Counts
                       /\ UNCHANGED << people_in_scene, current_time, outcome,
                                       prev_scene, assigned, completed_total >>
  /\ UNCHANGED << scenes, people_counts, max_people_counts, max_total_people,
                  total_people, last_update, last_summary_time, message_count,
                  max_keys >>
  /\ UNCHANGED << transport, mlocals, env, summaries, report, final_reports,
                  periodic_reports, render_failed >>

\* a variant of UpdateCount that adds the count to the scene's current count
UpdateCountAdds ==
  /\ dpc = "count"
  /\ LET c == CountPeople(objects)
     IN  IF c.raised
         THEN /\ HandlerExcept
              /\ UNCHANGED people_counts
         ELSE /\ people_counts' = DictSet(people_counts, scene_id,
                                          DictGet(people_counts, scene_id, 0) + c.n)
              /\ people_in_scene' = c.n
              /\ dpc' = "total"
              /\ assigned' = DictSet(assigned, scene_id,
                                     IF c.n > DictGet(assigned, scene_id, 0)
                                     THEN c.n ELSE DictGet(assigned, scene_id, 0))
              /\ UNCHANGED << data, scene_id, objects, current_time, outcome,
                              before, prev_scene, completed_total >>
  /\ UNCHANGED << scenes, max_people_counts, max_total_people, scene_names,
                  total_people, last_update, last_summary_time, message_count,
                  max_keys >>
  /\ UNCHANGED << transport, mlocals, env, delivered, summaries, report,
                  final_reports, periodic_reports, render_failed >>

\* lines 308-316: count the people, then self.people_counts[scene_id] = n
UpdateCount ==
  /\ dpc = "count"
  /\ LET c == CountPeople(objects)
     IN  IF c.raised
         THEN /\ HandlerExcept
              /\ UNCHANGED people_counts
         ELSE /\ people_counts' = DictSet(people_counts, scene_id, c.n)
              /\ people_in_scene' = c.n
              /\ dpc' = "total"
              /\ assigned' = DictSet(assigned, scene_id,
                                     IF c.n > DictGet(assigned, scene_id, 0)
                                     THEN c.n ELSE DictGet(assigned, scene_id, 0))
              /\ UNCHANGED << data, scene_id, objects, current_time, outcome,
                              before, prev_scene, completed_total >>
  /\ UNCHANGED << scenes, max_people_counts, max_total_people, scene_names,
                  total_people, last_update, last_summary_time, message_count,
                  max_keys >>
  /\ UNCHANGED << transport, mlocals, env, delivered, summaries, report,
                  final_reports, periodic_reports, render_failed >>

\* a variant of UpdateTotal that adds the new count to the running total
UpdateTotalAdds ==
  /\ dpc = "total"
  /\ total_people' = total_people + people_in_scene
  /\ dpc' = "peak"
  /\ UNCHANGED << scenes, people_counts, max_people_counts, max_total_people,
                  scene_names, last_update, last_summary_time, message_count,
                  max_keys >>
  /\ UNCHANGED << data, scene_id, objects, people_in_scene, current_time >>
  /\ UNCHANGED past
  /\ UNCHANGED << transport, mlocals, env, seen >>

\* line 317: self.total_people = sum(self.people_counts.values())
UpdateTotal ==
  /\ dpc = "total"
  /\ total_people' = SumValues(people_counts)
  /\ dpc' = "peak"
  /\ UNCHANGED << scenes, people_counts, max_people_counts, max_total_people,
                  scene_names, last_update, last_summary_time, message_count,
                  max_keys >>
  /\ UNCHANGED << data, scene_id, objects, people_in_scene, current_time >>
  /\ UNCHANGED past
  /\ UNCHANGED << transport, mlocals, env, seen >>

\* a variant of PeakExceeded that stores every count that differs
PeakDiffers(n, old) == n # old

\* line 320: people_in_scene > self.max_people_counts[scene_id]
PeakExceeded(n, old) == n > old

\* line 320: reading self.max_people_counts[scene_id]; the defaultdict adds
\* a missing key with the value 0
ReadPeak ==
  /\ dpc = "peak"
  /\ LET old == DictGet(max_people_counts, scene_id, 0)
     IN  /\ max_people_counts' = DictSet(max_people_counts, scene_id, old)
         /\ max_keys' = IF scene_id \in DOMAIN max_people_counts
                        THEN max_keys ELSE Append(max_keys, scene_id)
         /\ dpc' = IF PeakExceeded(people_in_scene, old) THEN "set_peak" ELSE "total_peak"
  /\ UNCHANGED << scenes, people_counts, max_total_people, scene_names,
                  total_people, last_update, last_summary_time, message_count >>
  /\ UNCHANGED << data, scene_id, objects, people_in_scene, current_time >>
  /\ UNCHANGED past
  /\ UNCHANGED << transport, mlocals, env, seen >>

\* a variant of SetPeak that stores the total instead of the scene's count
SetPeakTotal ==
  /\ dpc = "set_peak"
  /\ max_people_counts' = DictSet(max_people_counts, scene_id, total_people)
  /\ dpc' = "total_peak"
  /\ UNCHANGED << scenes, people_counts, max_total_people, scene_names,
                  total_people, last_update, last_summary_time, message_count,
                  max_keys >>
  /\ UNCHANGED << data, scene_id, objects, people_in_scene, current_time >>
  /\ UNCHANGED past
  /\ UNCHANGED << transport, mlocals, env, seen >>

\* line 321: self.max_people_counts[scene_id] = people_in_scene
SetPeak ==
  /\ dpc = "set_peak"
  /\ max_people_counts' = DictSet(max_people_counts, scene_id, people_in_scene)
  /\ dpc' = "total_peak"
  /\ UNCHANGED << scenes, people_counts, max_total_people, scene_names,
                  total_people, last_update, last_summary_time, message_count,
                  max_keys >>
  /\ UNCHANGED << data, scene_id, objects, people_in_scene, current_time >>
  /\ UNCHANGED past
  /\ UNCHANGED << transport, mlocals, env, seen >>

\* a variant of NewTotalPeak that stores the latest total
LatestTotal(total, peak) == total

\* lines 322-323
NewTotalPeak(total, peak) == IF total > peak THEN total ELSE peak

UpdateTotalPeak ==
  /\ dpc = "total_peak"
  /\ max_total_people' = NewTotalPeak(total_people, max_total_people)
  /\ dpc' = "last_update"
  /\ UNCHANGED << scenes, people_counts, max_people_counts, scene_names,
                  total_people, last_update, last_summary_time, message_count,
                  max_keys >>
  /\ UNCHANGED << data, scene_id, objects, people_in_scene, current_time >>
  /\ UNCHANGED past
  /\ UNCHANGED << transport, mlocals, env, seen >>

\* line 325: self.last_update = datetime.now()
SetLastUpdate ==
  /\ dpc = "last_update"
  /\ last_update' = << clock >>
  /\ dpc' = "message_count"
  /\ UNCHANGED << scenes, people_counts, max_people_counts, max_total_people,
                  scene_names, total_people, last_summary_time, message_count,
                  max_keys >>
  /\ UNCHANGED << data, scene_id, objects, people_in_scene, current_time >>
  /\ UNCHANGED past
  /\ UNCHANGED << transport, mlocals, env, seen >>

\* line 326: self.message_count += 1
CountMessage ==
  /\ dpc = "message_count"
  /\ message_count' = message_count + 1
  /\ dpc' = "summary_due"
  /\ UNCHANGED << scenes, people_counts, max_people_counts, max_total_people,
                  scene_names, total_people, last_update, last_summary_time,
                  max_keys >>
  /\ UNCHANGED << data, scene_id, objects, people_in_scene, current_time >>
  /\ completed_total' = IF total_people > completed_total THEN total_people ELSE completed_total
  /\ before' = << >>
  /\ UNCHANGED << prev_scene, assigned >>
  /\ UNCHANGED << transport, mlocals, env, seen >>

\* a variant of SummaryDue that forgets the time of the last summary
DueSinceStart(now, last, docker) == now >= SummaryInterval(docker)

\* line 333: current_time - self.last_summary_time >= summary_interval
SummaryDue(now, last, docker) == now - last >= SummaryInterval(docker)

\* lines 329-333: sample the clock and decide whether a summary is due
CheckSummary ==
  /\ dpc = "summary_due"
  /\ IF SummaryDue(clock, last_summary_time, is_docker)
     THEN /\ current_time' = clock
          /\ dpc' = "show"
          /\ UNCHANGED << data, scene_id, objects, people_in_scene, outcome >>
          /\ UNCHANGED past
     ELSE CallbackReturns("ok")
  /\ UNCHANGED << fields, transport, mlocals, env >>
  /\ UNCHANGED << delivered, summaries, report, final_reports,
                  periodic_reports, render_failed >>

\* the times of the latest two live summaries, oldest first
LatestTwo(times, t) ==
  IF times = << >> THEN << t >> ELSE << times[Len(times)], t >>

\* lines 334, 341-363: show_live_summary prints the one-line summary
ShowLiveSummary ==
  /\ dpc = "show"
  /\ summaries' = IF DOMAIN people_counts = {} THEN summaries
                  ELSE LatestTwo(summaries, current_time)
  /\ dpc' = "mark"
  /\ UNCHANGED << data, scene_id, objects, people_in_scene, current_time >>
  /\ UNCHANGED past
  /\ UNCHANGED << fields, transport, mlocals, env >>
  /\ UNCHANGED << delivered, outcome, report, final_reports, periodic_reports,
                  render_failed >>

\* lines 360/363 raise (a broken output stream); caught at line 337, so
\* line 335 is skipped
LiveSummaryFails ==
  /\ dpc = "show"
  /\ HandlerExcept
  /\ render_failed' = TRUE
  /\ UNCHANGED << fields, transport, mlocals, env >>
  /\ UNCHANGED << delivered, summaries, report, final_reports, periodic_reports >>

\* line 335: self.last_summary_time = current_time
MarkSummary ==
  /\ dpc = "mark"
  /\ last_summary_time' = current_time
  /\ CallbackReturns("ok")
  /\ UNCHANGED << scenes, people_counts, max_people_counts, max_total_people,
                  scene_names, total_people, last_update, message_count,
                  max_keys >>
  /\ UNCHANGED << transport, mlocals, env >>
  /\ UNCHANGED << delivered, summaries, report, final_reports,
                  periodic_reports, render_failed >>

(* ---------------------------- main thread ----------------------------- *)
\* run() has ended: it returned False or True, or an exception left it
Ended == { "returned_false", "returned_true", "raised" }
\* lines 397-407, before the try of line 410
StartUp == { "load_configuration", "initialize_rest_client", "mqtt_connect",
             "mqtt_subscribe" }
\* the steps of print_status (lines 365-390)
PrintStatus == { "ps_head", "ps_msgs", "ps_total", "ps_iter", "ps_next",
                 "ps_row", "ps_end" }
\* the try body of lines 411-427
MainLoop == { "banner", "sleep", "poll" }

MainOnly == /\ UNCHANGED << fields, transport, dlocals, past, env, seen >>
            /\ UNCHANGED << ps_ret, it_pos, it_used, row, pending >>

\* lines 397-399
LoadConfiguration ==
  /\ mpc = "load_configuration"
  /\ mpc' \in { "initialize_rest_client", "returned_false" }
  /\ MainOnly

\* lines 402-403, 105-160: on success self.scenes holds the catalogue
InitializeRestClient ==
  /\ mpc = "initialize_rest_client"
  /\ \/ mpc' = "mqtt_connect" /\ scenes' = Catalogue
     \/ mpc' = "returned_false" /\ scenes' = scenes
  /\ UNCHANGED << people_counts, max_people_counts, max_total_people,
                  scene_names, total_people, last_update, last_summary_time,
                  message_count, max_keys >>
  /\ UNCHANGED << transport, dlocals, past, env, seen >>
  /\ UNCHANGED << ps_ret, it_pos, it_used, row, pending >>

\* lines 197-226: credentials, connect, loop_start
MqttConnect ==
  /\ mpc = "mqtt_connect"
  /\ \/ /\ mpc' = "mqtt_subscribe"
        /\ connected' = TRUE /\ loop_running' = TRUE
     \/ /\ mpc' = "returned_false"
        /\ UNCHANGED << connected, loop_running >>
  /\ UNCHANGED << fields, subscribed, dlocals, past, env, seen >>
  /\ UNCHANGED << ps_ret, it_pos, it_used, row, pending >>

\* lines 229-246: wait, is_connected, subscribe
MqttSubscribe ==
  /\ mpc = "mqtt_subscribe"
  /\ \/ mpc' = "banner" /\ subscribed' = TRUE
     \/ mpc' = "returned_false" /\ subscribed' = subscribed
  /\ UNCHANGED << fields, connected, loop_running, dlocals, past, env, seen >>
  /\ UNCHANGED << ps_ret, it_pos, it_used, row, pending >>

\* lines 411-418: the banner, then self.last_summary_time = time.time()
Banner ==
  /\ mpc = "banner"
  /\ last_summary_time' = clock
  /\ mpc' = "sleep"
  /\ UNCHANGED << scenes, people_counts, max_people_counts, max_total_people,
                  scene_names, total_people, last_update, message_count,
                  max_keys >>
  /\ UNCHANGED << transport, dlocals, past, env, seen >>
  /\ UNCHANGED << ps_ret, it_pos, it_used, row, pending >>

\* lines 411-415 raise (a broken output stream): caught at line 433
BannerFails ==
  /\ mpc = "banner"
  /\ mpc' = "except_exception"
  /\ MainOnly

\* line 421: time.sleep(5) ends
Sleep ==
  /\ mpc = "sleep"
  /\ mpc' = "poll"
  /\ MainOnly

\* line 424
StatusDue(count) == count > 0 /\ count % StatusEvery = 0

\* lines 424-426: the periodic detailed report is due, or back to sleep
Poll ==
  /\ mpc = "poll"
  /\ IF StatusDue(message_count)
     THEN /\ mpc' = "ps_head" /\ ps_ret' = "periodic"
          /\ periodic_reports' = periodic_reports \cup { message_count }
     ELSE /\ mpc' = "sleep"
          /\ UNCHANGED << ps_ret, periodic_reports >>
  /\ UNCHANGED << fields, transport, dlocals, past, env >>
  /\ UNCHANGED << it_pos, it_used, row, pending >>
  /\ UNCHANGED << delivered, outcome, summaries, report, final_reports,
                  render_failed >>

\* print_status returns to its caller: line 427 (periodic) or the finally
\* clause after line 432 (final)
Returned(kind) == IF kind = "periodic" THEN "sleep" ELSE "finally"

PsReturn ==
  /\ mpc' = Returned(ps_ret)
  /\ final_reports' = IF ps_ret = "final" THEN final_reports + 1 ELSE final_reports
  /\ ps_ret' = "" /\ it_pos' = 0 /\ it_used' = 0 /\ row' = << >>
  /\ report' = NoReport

\* an exception raised in the main thread while print_status runs: inside
\* the try body it is caught at line 433; inside the handler of line 429 it
\* leaves run() after the finally clause
PsRaises ==
  /\ mpc' = IF ps_ret = "periodic" THEN "except_exception" ELSE "finally"
  /\ pending' = (ps_ret = "final")
  /\ ps_ret' = "" /\ it_pos' = 0 /\ it_used' = 0 /\ row' = << >>
  /\ report' = NoReport

\* lines 367-376: the header; without data the report ends here
PsHead ==
  /\ mpc = "ps_head"
  /\ IF last_update = << >>
     THEN PsReturn /\ UNCHANGED pending
     ELSE /\ mpc' = "ps_msgs"
          /\ UNCHANGED << ps_ret, it_pos, it_used, row, pending, report, final_reports >>
  /\ UNCHANGED << fields, transport, dlocals, past, env >>
  /\ UNCHANGED << delivered, outcome, summaries, periodic_reports, render_failed >>

\* line 373: Total Messages Processed
PsMessages ==
  /\ mpc = "ps_msgs"
  /\ mpc' = "ps_total"
  /\ MainOnly

\* a variant of PsTotal that starts a new peak once it has printed the old
PsTotalResets ==
  /\ mpc = "ps_total"
  /\ report' = [report EXCEPT !.total_peak = << max_total_people >>]
  /\ mpc' = "ps_iter"
  /\ max_total_people' = 0
  /\ UNCHANGED << scenes, people_counts, max_people_counts, scene_names,
                  total_people, last_update, last_summary_time, message_count,
                  max_keys >>
  /\ UNCHANGED << transport, dlocals, past, env >>
  /\ UNCHANGED << ps_ret, it_pos, it_used, row, pending >>
  /\ UNCHANGED << delivered, outcome, summaries, final_reports,
                  periodic_reports, render_failed >>

\* line 378: Maximum Total People Detected
PsTotal ==
  /\ mpc = "ps_total"
  /\ report' = [report EXCEPT !.total_peak = << max_total_people >>]
  /\ mpc' = "ps_iter"
  /\ UNCHANGED << fields, transport, dlocals, past, env >>
  /\ UNCHANGED << ps_ret, it_pos, it_used, row, pending >>
  /\ UNCHANGED << delivered, outcome, summaries, final_reports,
                  periodic_reports, render_failed >>

\* lines 381-383, 388: an empty dict prints "No live data"; otherwise the
\* for loop takes an iterator, which remembers the size of the dict
PsIter ==
  /\ mpc = "ps_iter"
  /\ IF DOMAIN max_people_counts = {}
     THEN mpc' = "ps_end" /\ UNCHANGED << it_pos, it_used >>
     ELSE mpc' = "ps_next" /\ it_pos' = 1 /\ it_used' = Len(max_keys)
  /\ UNCHANGED << fields, transport, dlocals, past, env, seen >>
  /\ UNCHANGED << ps_ret, row, pending >>

\* the iterator finds the dict changed size (RuntimeError)
SizeChanged(used, keys) == used # Len(keys)

\* line 383: the next (scene_id, max_count) of max_people_counts.items()
PsNext ==
  /\ mpc = "ps_next"
  /\ IF SizeChanged(it_used, max_keys)
     THEN /\ PsRaises
          /\ render_failed' = (render_failed \/ ps_ret = "periodic")
          /\ UNCHANGED final_reports
     ELSE /\ IF it_pos > Len(max_keys)
             THEN mpc' = "ps_end" /\ UNCHANGED << it_pos, row >>
             ELSE /\ mpc' = "ps_row"
                  /\ row' = [scene |-> max_keys[it_pos],
                             max_count |-> max_people_counts[max_keys[it_pos]]]
                  /\ it_pos' = it_pos + 1
          /\ UNCHANGED << ps_ret, it_used, pending, report, final_reports,
                          render_failed >>
  /\ UNCHANGED << fields, transport, dlocals, past, env >>
  /\ UNCHANGED << delivered, outcome, summaries, periodic_reports >>

\* lines 384-386: one line of the report
PsRow ==
  /\ mpc = "ps_row"
  /\ report' = [report EXCEPT !.rows = Append(@,
                  [scene |-> row.scene,
                   name |-> DictGet(scene_names, row.scene, Placeholder(row.scene)),
                   max_count |-> row.max_count,
                   current_count |-> DictGet(people_counts, row.scene, 0)])]
  /\ mpc' = "ps_next"
  /\ row' = << >>
  /\ UNCHANGED << fields, transport, dlocals, past, env >>
  /\ UNCHANGED << ps_ret, it_pos, it_used, pending >>
  /\ UNCHANGED << delivered, outcome, summaries, final_reports,
                  periodic_reports, render_failed >>

\* line 390: the closing rule; print_status returns
PsEnd ==
  /\ mpc = "ps_end"
  /\ PsReturn
  /\ UNCHANGED pending
  /\ UNCHANGED << fields, transport, dlocals, past, env >>
  /\ UNCHANGED << delivered, outcome, summaries, periodic_reports, render_failed >>

\* a print of print_status raises (a broken output stream)
PrintFails ==
  /\ mpc \in PrintStatus
  /\ PsRaises
  /\ render_failed' = (render_failed \/ ps_ret = "periodic")
  /\ UNCHANGED << fields, transport, dlocals, past, env >>
  /\ UNCHANGED << delivered, outcome, summaries, final_reports, periodic_reports >>

\* lines 433-434: logs "Unexpected error" and goes on to the finally clause
ExceptException ==
  /\ mpc = "except_exception"
  /\ mpc' = "finally"
  /\ MainOnly

\* lines 429-432: the handler calls print_status for the final report
ExceptKeyboardInterrupt ==
  /\ mpc = "except_interrupt"
  /\ mpc' = "ps_head" /\ ps_ret' = "final"
  /\ UNCHANGED << fields, transport, dlocals, past, env, seen >>
  /\ UNCHANGED << it_pos, it_used, row, pending >>

\* line 439: loop_stop() stops the network thread and joins it, so it
\* returns when the callback in progress has returned
LoopStop ==
  /\ mpc = "finally"
  /\ dpc = "idle"
  /\ loop_running' = FALSE
  /\ mpc' = "disconnect"
  /\ UNCHANGED << fields, connected, subscribed, dlocals, past, env, seen >>
  /\ UNCHANGED << ps_ret, it_pos, it_used, row, pending >>

\* line 440: disconnect()
Disconnect ==
  /\ mpc = "disconnect"
  /\ connected' = FALSE /\ subscribed' = FALSE
  /\ mpc' = "stopped"
  /\ UNCHANGED << fields, loop_running, dlocals, past, env, seen >>
  /\ UNCHANGED << ps_ret, it_pos, it_used, row, pending >>

\* lines 441-442: loop_stop or disconnect raises; the bare except drops it
TeardownFails ==
  /\ mpc \in { "finally", "disconnect" }
  /\ mpc' = "stopped"
  /\ MainOnly

\* lines 443-445: "People counter stopped."; run() returns True unless an
\* exception is still on its way out
Stopped ==
  /\ mpc = "stopped"
  /\ mpc' = IF pending THEN "raised" ELSE "returned_true"
  /\ pending' = FALSE
  /\ UNCHANGED << fields, transport, dlocals, past, env, seen >>
  /\ UNCHANGED << ps_ret, it_pos, it_used, row >>

\* where the main thread continues when KeyboardInterrupt is raised in it
AfterInterrupt(at, ret) ==
  CASE at \in StartUp -> "raised"
    [] at \in MainLoop -> "except_interrupt"
    [] at \in PrintStatus /\ ret = "periodic" -> "except_interrupt"
    [] at = "except_exception" -> "finally"
    [] at \in { "finally", "disconnect" } -> "stopped"
    [] OTHER -> "raised"

\* Ctrl+C: KeyboardInterrupt is raised in the main thread, wherever it is
Interrupt ==
  /\ ~interrupted
  /\ mpc \notin Ended
  /\ interrupted' = TRUE
  /\ mpc' = AfterInterrupt(mpc, ps_ret)
  /\ pending' = (pending \/ mpc = "except_exception")
  /\ ps_ret' = "" /\ it_pos' = 0 /\ it_used' = 0 /\ row' = << >>
  /\ report' = NoReport
  /\ UNCHANGED << fields, transport, dlocals, past, clock, is_docker >>
  /\ UNCHANGED << delivered, outcome, summaries, final_reports,
                  periodic_reports, render_failed >>

\* a second of wall-clock time passes
Tick ==
  /\ clock < StartTime + MaxTicks
  /\ clock' = clock + 1
  /\ UNCHANGED << fields, transport, dlocals, past, mlocals, is_docker, interrupted, seen >>

(* --------------------------- specifications --------------------------- *)
\* handle_mqtt_message after the scene name is cached
Handler ==
  \/ UpdateCount \/ UpdateTotal \/ ReadPeak \/ SetPeak \/ UpdateTotalPeak
  \/ SetLastUpdate \/ CountMessage \/ CheckSummary \/ ShowLiveSummary
  \/ MarkSummary

\* run() up to and including its polling loop
Polling ==
  \/ LoadConfiguration \/ InitializeRestClient \/ MqttConnect \/ MqttSubscribe
  \/ Banner \/ BannerFails \/ Sleep \/ Poll

\* print_status, and the end of run()
Reporting ==
  \/ PsHead \/ PsMessages \/ PsTotal \/ PsIter \/ PsNext \/ PsRow \/ PsEnd
  \/ PrintFails

\* Ctrl+C and its handler
CtrlC == Interrupt \/ ExceptKeyboardInterrupt

Shutdown == ExceptException \/ LoopStop \/ Disconnect \/ TeardownFails \/ Stopped

\* a run in a container (DOCKER_CONTAINER set); while the clock stands still
\* line 333 decides the same in a terminal, as time.time() >= 3.0 > 1.0
InitContainer == Init /\ is_docker

\* the mixed workload: a few messages of every kind, Ctrl+C at any moment,
\* all within one second
Next ==
  \/ OnMessage(Events, MaxMsgs) \/ Handler \/ LiveSummaryFails
  \/ Polling \/ Reporting \/ Shutdown \/ CtrlC

Spec == InitContainer /\ [][Next]_vars

\* the workload of object lists: one scene, every objects list, no Ctrl+C
NextObjects ==
  \/ OnMessage(ObjectEvents, MaxMsgs) \/ Handler
  \/ Polling \/ Shutdown

SpecObjects == InitContainer /\ [][NextObjects]_vars

\* the timed workload: the same event again and again while time passes
NextTimed ==
  \/ OnMessage(SteadyEvents, MaxMsgs + MaxTicks) \/ Handler \/ LiveSummaryFails
  \/ Polling \/ Shutdown \/ Tick

SpecTimed == Init /\ [][NextTimed]_vars

\* the steady workload: the same event for a long run
NextSteady ==
  \/ OnMessage(SteadyEvents, LongRun) \/ Handler
  \/ Polling \/ Reporting \/ Shutdown

SpecSteady == InitContainer /\ [][NextSteady]_vars

\* the workload of names: a few events over the ids of NameIds, no Ctrl+C
NextNames ==
  \/ OnMessage(NamedEvents, MaxMsgs) \/ Handler
  \/ Polling \/ Shutdown

SpecNames == InitContainer /\ [][NextNames]_vars

\* the workload of the example: a few events over two scenes, no Ctrl+C
NextExample ==
  \/ OnMessage(ExampleEvents, MaxMsgs) \/ Handler
  \/ Polling \/ Shutdown

SpecExample == InitContainer /\ [][NextExample]_vars

(* ------------------------------- claims ------------------------------- *)
\* the sum of the current counts of the scenes in S
RECURSIVE CurrentOver(_)
CurrentOver(S) ==
  IF S = {} THEN 0
  ELSE LET sid == CHOOSE x \in S : TRUE
       IN  DictGet(people_counts, sid, 0) + CurrentOver(S \ {sid})

\* C1: whenever no update is in progress, total_people is the sum of the
\* current counts of all scenes that have one
C1_TotalIsSum ==
  dpc = "idle" => total_people = CurrentOver(SceneIds)

\* two scenes with people, after at least two completed updates
C1_Witness ==
  /\ dpc = "idle" /\ message_count >= 2
  /\ DOMAIN people_counts = SceneIds
  /\ \A sid \in SceneIds : people_counts[sid] > 0
  /\ total_people >= 2

\* C2: whenever no update is in progress max_total_people >= total_people,
\* and no step of the program ever lowers max_total_people
C2_TotalPeak ==
  /\ [](dpc = "idle" => max_total_people >= total_people)
  /\ [][max_total_people' >= max_total_people]_vars

\* the total has fallen below its peak
C2_Witness ==
  /\ dpc = "idle" /\ message_count >= 2
  /\ max_total_people > total_people

\* C3: whenever no update is in progress every scene with a current count
\* has a peak count that is at least as large, and no step of the program
\* removes or lowers a scene's peak count
C3_ScenePeak ==
  /\ [](dpc = "idle" =>
          \A sid \in DOMAIN people_counts :
             /\ sid \in DOMAIN max_people_counts
             /\ max_people_counts[sid] >= people_counts[sid])
  /\ [][\A sid \in DOMAIN max_people_counts :
          /\ sid \in DOMAIN max_people_counts'
          /\ max_people_counts'[sid] >= max_people_counts[sid]]_vars

\* a scene whose count has fallen below its peak
C3_Witness ==
  /\ dpc = "idle"
  /\ \E sid \in DOMAIN people_counts : max_people_counts[sid] > people_counts[sid]

\* C4: the step that rejects an event without a scene id changes no field
\* of the counter, renders no summary and leaves the network loop running;
\* and nothing is ever stored under an absent or empty scene id
C4_MissingIdNoEffect ==
  /\ [][(/\ dpc = "idle" /\ dpc' = "idle"
          /\ delivered' = delivered + 1 /\ outcome' = "missing_id")
          => UNCHANGED << fields, transport, summaries, report, render_failed >>]_vars
  /\ [](\A sid \in DOMAIN people_counts \cup DOMAIN max_people_counts
                     \cup DOMAIN scene_names : sid # None /\ sid # "")

\* an event without a scene id was rejected after an accepted one
C4_Witness ==
  /\ dpc = "idle" /\ outcome = "missing_id"
  /\ message_count > 0 /\ delivered > message_count

\* the entries of an objects list whose type or whose category is "person"
PersonEntries(objs) ==
  { i \in 1..Len(objs) :
      \/ ("type" \in DOMAIN objs[i].val /\ objs[i].val["type"] = "person")
      \/ ("category" \in DOMAIN objs[i].val /\ objs[i].val["category"] = "person") }

\* C5: the count line 316 stores for the scene is the number of entries of
\* the event's objects list whose type or category is "person"
C5_CountsPersons ==
  [][(dpc = "count" /\ dpc' = "total")
       => people_counts'[scene_id] = Cardinality(PersonEntries(objects))]_vars

\* an event of two entries, one matching in both fields and one matching in
\* type with another category, was counted as two people
C5_Witness ==
  /\ dpc = "total"
  /\ objects = << JObj([type |-> "person", category |-> "person"]),
                  JObj([type |-> "person", category |-> "other"]) >>
  /\ people_counts[scene_id] = 2

\* the sum of the current counts a report has printed so far
RECURSIVE PrintedCurrent(_)
PrintedCurrent(rows) ==
  IF rows = << >> THEN 0
  ELSE rows[1].current_count + PrintedCurrent(Tail(rows))

\* C6: no detailed report prints a scene whose current count exceeds its
\* peak count, or a total peak below the sum of the current counts it prints
C6_ReportConsistent ==
  /\ \A i \in 1..Len(report.rows) :
        report.rows[i].current_count <= report.rows[i].max_count
  /\ report.total_peak # << >> =>
        report.total_peak[1] >= PrintedCurrent(report.rows)

\* C7: once run() has ended after a Ctrl+C, the final report was rendered
\* exactly once and the transport is stopped and disconnected; and after a
\* Ctrl+C the teardown never starts before the final report was rendered
C7_InterruptReportsThenStops ==
  /\ (interrupted /\ mpc \in Ended) =>
        (final_reports = 1 /\ ~loop_running /\ ~connected)
  /\ (interrupted /\ mpc \in { "disconnect", "stopped" }) => final_reports = 1

\* C8: the latest two live summaries are at least the summary interval
\* apart, by the time each update read at line 329
C8_SummariesApart ==
  Len(summaries) = 2 =>
     summaries[2] - summaries[1] >= SummaryInterval(is_docker)

\* two summaries, and a later update that rendered none
C8_Witness ==
  /\ dpc = "idle" /\ Len(summaries) = 2
  /\ message_count >= 3
  /\ last_update # << >> /\ last_update[1] > summaries[2]

\* C9: once message_count has passed 150, a periodic detailed report was
\* rendered for 150
C9_ReportAtEveryMultiple ==
  message_count > StatusEvery => StatusEvery \in periodic_reports

\* C10: after a report failed to render (and without any Ctrl+C) the
\* network loop is running and the client is connected
C10_RenderFailureSwallowed ==
  (render_failed /\ ~interrupted) => (loop_running /\ connected)

\* C11: a payload that is not JSON is dropped with every field unchanged, the
\* network loop is running after every callback, and an event that is going
\* to be dropped while it is counted changes the display name of no scene
\* that has a current count (so what later events render is what it would
\* have been without the dropped one)
C11_BadMessageContained ==
  /\ [][(dpc = "idle" /\ dpc' = "idle" /\ delivered' = delivered + 1
          /\ outcome' = "non_json") => UNCHANGED fields]_vars
  /\ [][delivered' = delivered + 1 => loop_running']_vars
  /\ [][(dpc = "idle" /\ dpc' = "count" /\ CountPeople(objects').raised)
          => \A sid \in DOMAIN people_counts :
                DictGet(scene_names', sid, None) = DictGet(scene_names, sid, None)]_vars

\* C12: an accepted event that carries no name leaves the display name
\* already cached for its scene as it is
C12_NameNotOverwritten ==
  [][(/\ dpc = "idle" /\ dpc' = "count"
      /\ "name" \notin DOMAIN data'
      /\ scene_id' \in DOMAIN scene_names)
       => scene_names'[scene_id'] = scene_names[scene_id']]_vars

\* C20: whenever no call is in progress, the scenes with a cached display
\* name, the scenes with a current count and the scenes with a peak count
\* are the same scenes
C20_SameScenesEverywhere ==
  dpc = "idle" =>
     /\ DOMAIN scene_names = DOMAIN people_counts
     /\ DOMAIN people_counts = DOMAIN max_people_counts

\* C14: an update for the scene of the update just before it, with the same
\* number of people (the same event processed again is one), leaves every
\* current count, every peak count, the total and the total peak as they
\* were; message_count grows by one
C14_SameEventAgain ==
  [][(/\ dpc = "message_count" /\ dpc' = "summary_due"
      /\ scene_id = prev_scene
      /\ scene_id \in DOMAIN before.people_counts
      /\ before.people_counts[scene_id] = people_in_scene)
       => /\ people_counts' = before.people_counts
          /\ max_people_counts' = before.max_people_counts
          /\ total_people' = before.total_people
          /\ max_total_people' = before.max_total_people
          /\ message_count' = before.message_count + 1]_vars

\* the event "one person in scene A" is being processed for the second time in
\* a row, about to be counted at line 326
C14_Witness ==
  /\ dpc = "message_count" /\ delivered = 2 /\ before.message_count = 1
  /\ data = [id |-> "A", objects |-> << JObj([type |-> "person"]) >>]
  /\ prev_scene = "A" /\ before.people_counts = [A |-> 1]
  /\ people_counts = [A |-> 1] /\ max_people_counts = [A |-> 1]
  /\ total_people = 1 /\ max_total_people = 1

\* C16: no step of print_status and no step of show_live_summary changes
\* people_counts, max_people_counts, total_people, max_total_people,
\* message_count, last_update or scene_names (their keys included)
C16_RenderingReadsOnly ==
  [][((mpc \in PrintStatus /\ mpc' # mpc) \/ (dpc = "show" /\ dpc' # dpc))
       => UNCHANGED << people_counts, max_people_counts, total_people,
                       max_total_people, message_count, last_update,
                       scene_names >>]_vars

\* a detailed report has printed its rows after a live summary was shown
C16_Witness ==
  /\ mpc = "ps_end" /\ Len(report.rows) >= 1 /\ report.total_peak # << >>
  /\ Len(summaries) >= 1 /\ message_count >= 1

C19_PeaksAreMaxima ==
  dpc = "idle" =>
     /\ max_people_counts = assigned
     /\ max_total_people = completed_total

\* both scenes had one person, then one of them emptied
C19_Witness ==
  /\ dpc = "idle" /\ message_count = 3
  /\ max_people_counts = [A |-> 1, B |-> 1]
  /\ \E sid \in SceneIds : people_counts[sid] = 0
  /\ total_people = 1 /\ completed_total = 2

\* the 26 letters, in both cases
UpperCase == "ABCDEFGHIJKLMNOPQRSTUVWXYZ"
LowerCase == "abcdefghijklmnopqrstuvwxyz"

\* a one-character string in lower case
LowerChar(c) ==
  IF \E i \in 1..Len(UpperCase) : SubSeq(UpperCase, i, i) = c
  THEN LET i == CHOOSE n \in 1..Len(UpperCase) : SubSeq(UpperCase, n, n) = c
       IN  SubSeq(LowerCase, i, i)
  ELSE c

\* a string in lower case
RECURSIVE Lower(_)
Lower(s) ==
  IF Len(s) = 0 THEN ""
  ELSE LowerChar(SubSeq(s, 1, 1)) \o Lower(SubSeq(s, 2, Len(s)))

\* C13: scene ids that differ only in letter case share one per-scene entry:
\* no two keys of people_counts, and no two of max_people_counts, are equal
\* up to case
C13_CaseInsensitiveIds ==
  /\ \A s, t \in DOMAIN people_counts : Lower(s) = Lower(t) => s = t
  /\ \A s, t \in DOMAIN max_people_counts : Lower(s) = Lower(t) => s = t

\* C15: an update, when it completes at line 326, has set its scene's
\* current count to the number of person entries of its event, and has left
\* the current count and the peak count of every other scene as they were
C15_ReplacesOwnCountOnly ==
  [][(dpc = "message_count" /\ dpc' = "summary_due")
       => /\ people_counts'[scene_id] = Cardinality(PersonEntries(objects))
          /\ DOMAIN people_counts' = DOMAIN before.people_counts \cup { scene_id }
          /\ \A sid \in DOMAIN before.people_counts \ { scene_id } :
                people_counts'[sid] = before.people_counts[sid]
          /\ DOMAIN max_people_counts' = DOMAIN before.max_people_counts \cup { scene_id }
          /\ \A sid \in DOMAIN before.max_people_counts \ { scene_id } :
                max_people_counts'[sid] = before.max_people_counts[sid]]_vars

\* the example: after A with two people (total 2, total peak 2) and B with
\* one (total 3, total peak 3), A with nobody gives total 1, total peak 3 and
\* leaves A's peak at 2
C15_Witness ==
  /\ dpc = "message_count"
  /\ data = [id |-> "A", objects |-> << >>]
  /\ max_keys = << "A", "B" >>
  /\ before = [ people_counts |-> [A |-> 2, B |-> 1],
                max_people_counts |-> [A |-> 2, B |-> 1],
                total_people |-> 3, max_total_people |-> 3, message_count |-> 2 ]
  /\ people_counts = [A |-> 0, B |-> 1]
  /\ max_people_counts = [A |-> 2, B |-> 1]
  /\ total_people = 1 /\ max_total_people = 3

\* C17: the name line 304 caches for an accepted event without 'name' is the
\* registry's name when the registry lists the scene, and otherwise "Scene-"
\* and the first 8 characters of the id (the whole id when it is shorter)
C17_PlaceholderName ==
  [][(dpc = "idle" /\ dpc' = "count" /\ "name" \notin DOMAIN data')
       => scene_names'[scene_id'] =
            CASE scene_id' \in DOMAIN scenes -> scenes[scene_id'].name
              [] scene_id' = "a" -> "Scene-a"
              [] scene_id' = "B" -> "Scene-B"
              [] scene_id' = "west-wing-12" -> "Scene-west-win"]_vars

\* a long id, a short id and a registry id have been named
C17_Witness ==
  /\ dpc = "idle" /\ outcome = "ok"
  /\ DOMAIN scene_names = { "A", "B", "west-wing-12" }
  /\ scene_names["A"] = "Lobby"
  /\ scene_names["B"] = "Scene-B"
  /\ scene_names["west-wing-12"] = "Scene-west-win"

====
